---- MODULE Spec2Model ----
(***************************************************************************)
(* Model of the risk detection engine (scripts/risk_engine.py) together    *)
(* with the collaborators it drives: the transaction table fed by the      *)
(* simulator, the exposure tables, the alert table and the notification    *)
(* dispatcher (scripts/alert_system.py).                                   *)
(*                                                                         *)
(* Numbers.  Money amounts are whole currency units, time is in seconds.   *)
(* The float comparisons of the code are written as integer comparisons    *)
(* (exposure / threshold >= 0.75 as 4 * exposure >= 3 * threshold); on the *)
(* amounts used here both agree.  None stands for SQL NULL / Python None,  *)
(* on which float() raises TypeError.                                      *)
(***************************************************************************)
EXTENDS Integers, Sequences, FiniteSets, TLC

\* ------------------------------------------------------------------ bounds
MaxCycles == 2
MaxFaults == 1
MaxTx == 2
MaxIdGap == 2
ExtraCycles == 1
MaxStreamed == 1
MaxAlerts == 2
MaxDays == 2
MaxCalls == 3
MaxBlocks == 3
MaxStatements == 3

\* ------------------------------------------------------- program constants
MONITORING_INTERVAL == 5
VELOCITY_WINDOW == 60
ANOMALY_WINDOW == 100
TRACKER_MAXLEN == 100
ANOMALY_MIN_SAMPLES == 30
ANOMALY_HIGH_ZSCORE == 4
METRICS_EVERY == 10
None == -1

\* ----------------------------------------------------------- input domains
Clients == {"CLIENT_001", "CLIENT_002"}
Symbols == {"AAPL"}
TxClients == {"CLIENT_001"}
TxValues == {None, 1000}

VARIABLES
    \* configuration read from the environment at import
    CLIENT_EXPOSURE_THRESHOLD, SYMBOL_EXPOSURE_THRESHOLD,
    TRANSACTION_VELOCITY_THRESHOLD, ANOMALY_DETECTION_THRESHOLD,
    \* AlertSystem.__init__: which channels the environment configures
    slack_enabled, email_enabled,
    \* database tables
    transactions_table, client_exposures, symbol_exposures, alerts, risk_metrics,
    \* alerts handed to AlertSystem.send_alert, and what each channel did
    notifications, deliveries,
    \* RiskEngine fields
    running, last_transaction_id, alerts_generated, transactions_processed,
    client_transactions, symbol_transactions, transaction_values,
    \* monitor_loop: position, iteration counter, locals of the step in progress
    pc, iteration, transactions, txIdx, rows,
    \* wall clock (datetime.now())
    now,
    \* history: ids whose processing completed, injected collaborator faults,
    \* position at which the loop was interrupted, facts about the current cycle
    processed, faults, interruptedAt, cyc,
    \* history: every (client, symbol, time) appended to the trackers
    recorded,
    \* AlertManager: the alerts it deleted and what its last call returned
    removed, result,
    \* DatabaseConnection: committed and pending statements, get_cursor blocks
    db

config == <<CLIENT_EXPOSURE_THRESHOLD, SYMBOL_EXPOSURE_THRESHOLD,
            TRANSACTION_VELOCITY_THRESHOLD, ANOMALY_DETECTION_THRESHOLD,
            slack_enabled, email_enabled>>
sink == <<alerts, notifications, deliveries, alerts_generated>>
manager == <<removed, result>>
trackers == <<client_transactions, symbol_transactions, transaction_values,
              recorded>>
vars == <<CLIENT_EXPOSURE_THRESHOLD, SYMBOL_EXPOSURE_THRESHOLD,
          TRANSACTION_VELOCITY_THRESHOLD, ANOMALY_DETECTION_THRESHOLD,
          transactions_table, client_exposures, symbol_exposures, alerts,
          risk_metrics, notifications, running, last_transaction_id,
          alerts_generated, transactions_processed, client_transactions,
          symbol_transactions, transaction_values, pc, iteration, transactions,
          txIdx, rows, now, processed, faults, interruptedAt, cyc, recorded,
          slack_enabled, email_enabled, deliveries, removed, result, db>>

\* ------------------------------------------------------------------ helpers
\* a deque that never evicts
DequeAppendUnbounded(q, x, maxlen) == Append(q, x)

\* collections.deque(maxlen=n).append(x)
DequeAppend(q, x, maxlen) ==
    IF Len(q) < maxlen THEN Append(q, x) ELSE Append(Tail(q), x)

\* a tracker that puts the newest timestamp first
TrackerAppendLeft(tracker, key, x) ==
    [k \in (DOMAIN tracker) \cup {key} |->
        IF k = key
        THEN <<x>> \o (IF key \in DOMAIN tracker THEN tracker[key] ELSE <<>>)
        ELSE tracker[k]]

\* defaultdict(lambda: deque(maxlen=100))[key].append(x)
TrackerAppend(tracker, key, x) ==
    [k \in (DOMAIN tracker) \cup {key} |->
        IF k = key
        THEN DequeAppend(IF key \in DOMAIN tracker THEN tracker[key] ELSE <<>>,
                         x, TRACKER_MAXLEN)
        ELSE tracker[k]]

\* the orders in which a SELECT without ORDER BY may return the keys S
RowOrders(S) ==
    {f \in [1..Cardinality(S) -> S] : \A i, j \in DOMAIN f : i # j => f[i] # f[j]}

RECURSIVE SumSeq(_)
SumSeq(s) == IF s = <<>> THEN 0 ELSE Head(s) + SumSeq(Tail(s))

RECURSIVE SumSqSeq(_)
SumSqSeq(s) == IF s = <<>> THEN 0 ELSE Head(s) * Head(s) + SumSqSeq(Tail(s))

\* the largest r in lo..hi with r * r <= n, by bisection
RECURSIVE ISqrtIn(_, _, _)
ISqrtIn(n, lo, hi) ==
    IF lo >= hi THEN lo
    ELSE LET mid == (lo + hi + 1) \div 2
         IN IF mid * mid <= n THEN ISqrtIn(n, mid, hi) ELSE ISqrtIn(n, lo, mid - 1)

\* floor of the square root of n < 2^31
ISqrt(n) == ISqrtIn(n, 0, IF n < 46340 THEN n ELSE 46340)

\* ------------------------------------------------------- ExposureClassifier
\* exposure / threshold >= num / den, for threshold # 0
RatioAtLeast(exposure, threshold, num, den) ==
    IF threshold > 0
    THEN exposure * den >= num * threshold
    ELSE exposure * den <= num * threshold

\* a classifier whose HIGH tier starts strictly above 75% of the threshold
calculate_risk_level_AboveThreeQuarters(exposure, threshold) ==
    IF RatioAtLeast(exposure, threshold, 1, 1) THEN "CRITICAL"
    ELSE IF RatioAtLeast(exposure, threshold, 3, 4) /\ exposure * 4 # threshold * 3
         THEN "HIGH"
    ELSE IF RatioAtLeast(exposure, threshold, 1, 2) THEN "MEDIUM"
    ELSE "LOW"

calculate_risk_level(exposure, threshold) ==
    IF RatioAtLeast(exposure, threshold, 1, 1) THEN "CRITICAL"
    ELSE IF RatioAtLeast(exposure, threshold, 3, 4) THEN "HIGH"
    ELSE IF RatioAtLeast(exposure, threshold, 1, 2) THEN "MEDIUM"
    ELSE "LOW"

\* a check that also triggers at exposure == threshold
ExposureTriggeredAtEqual(exposure, threshold) == exposure >= threshold

\* exposure > threshold
ExposureTriggered(exposure, threshold) == exposure > threshold

\* a severity that is already CRITICAL at exactly 1.5 times the threshold
ExposureSeverityAtEqual(exposure, threshold) ==
    IF 2 * exposure >= 3 * threshold THEN "CRITICAL" ELSE "HIGH"

\* 'CRITICAL' if exposure > threshold * 1.5 else 'HIGH'
ExposureSeverity(exposure, threshold) ==
    IF 2 * exposure > 3 * threshold THEN "CRITICAL" ELSE "HIGH"

ExposureAlert(alertType, entityType, key, exposure, threshold) ==
    [alert_type |-> alertType,
     severity |-> ExposureSeverity(exposure, threshold),
     entity_type |-> entityType,
     entity_id |-> key,
     threshold_value |-> threshold,
     current_value |-> exposure]

\* --------------------------------------------------------- velocity, anomaly
\* a count that includes a timestamp equal to the cutoff
RecentCountFromCutoff(timestamps, t) ==
    Cardinality({i \in DOMAIN timestamps : timestamps[i] >= t - VELOCITY_WINDOW})

\* sum(1 for tx_time in transactions if tx_time > cutoff)
RecentCount(timestamps, t) ==
    Cardinality({i \in DOMAIN timestamps : timestamps[i] > t - VELOCITY_WINDOW})

\* a check that already alerts at exactly the threshold
check_transaction_velocity_AtThreshold(entityType, key, timestamps, threshold, t) ==
    IF Len(timestamps) < 2 THEN <<>>
    ELSE IF RecentCount(timestamps, t) >= threshold
         THEN << [alert_type |-> "HIGH_TRANSACTION_VELOCITY",
                  severity |-> "HIGH",
                  entity_type |-> entityType,
                  entity_id |-> key,
                  threshold_value |-> threshold,
                  current_value |-> RecentCount(timestamps, t)] >>
         ELSE <<>>

\* returns <<>> for None, <<alert>> for an alert
check_transaction_velocity(entityType, key, timestamps, threshold, t) ==
    IF Len(timestamps) < 2 THEN <<>>
    ELSE IF RecentCount(timestamps, t) > threshold
         THEN << [alert_type |-> "HIGH_TRANSACTION_VELOCITY",
                  severity |-> "HIGH",
                  entity_type |-> entityType,
                  entity_id |-> key,
                  threshold_value |-> threshold,
                  current_value |-> RecentCount(timestamps, t)] >>
         ELSE <<>>

\* n^2 * variance of the window: n * sum(x^2) - sum(x)^2
ScaledVariance(window) ==
    Len(window) * SumSqSeq(window) - SumSeq(window) * SumSeq(window)

\* a z-score without abs(): only values above the mean can exceed it
ZScoreAboveOneSided(window, value, sensitivity) ==
    IF sensitivity < 0 THEN TRUE
    ELSE /\ Len(window) * value > SumSeq(window)
         /\ (Len(window) * value - SumSeq(window)) * (Len(window) * value - SumSeq(window))
               > sensitivity * sensitivity * ScaledVariance(window)

\* z_score > sensitivity, with z_score = abs((value - mean) / std), squared and
\* multiplied by n^2 * variance
ZScoreAbove(window, value, sensitivity) ==
    IF sensitivity < 0 THEN TRUE
    ELSE (Len(window) * value - SumSeq(window)) * (Len(window) * value - SumSeq(window))
            > sensitivity * sensitivity * ScaledVariance(window)

ZScoreBelow(window, value, bound) ==
    (Len(window) * value - SumSeq(window)) * (Len(window) * value - SumSeq(window))
        < bound * bound * ScaledVariance(window)

\* mean + sensitivity * std, rounded down
AnomalyThresholdValue(window, sensitivity) ==
    (SumSeq(window) + sensitivity * ISqrt(ScaledVariance(window))) \div Len(window)

\* a detector without the minimum sample count
detect_anomaly_NoFloor(window, value, sensitivity) ==
    IF window = <<>> THEN <<>>
    ELSE IF ScaledVariance(window) = 0 THEN <<>>
    ELSE IF ZScoreAbove(window, value, sensitivity)
         THEN << [alert_type |-> "ANOMALY_DETECTED",
                  severity |-> IF ZScoreBelow(window, value, ANOMALY_HIGH_ZSCORE)
                               THEN "MEDIUM" ELSE "HIGH",
                  entity_type |-> "SYSTEM",
                  entity_id |-> "TRANSACTION_MONITOR",
                  threshold_value |-> AnomalyThresholdValue(window, sensitivity),
                  current_value |-> value] >>
         ELSE <<>>

detect_anomaly(window, value, sensitivity) ==
    IF Len(window) < ANOMALY_MIN_SAMPLES THEN <<>>
    ELSE IF ScaledVariance(window) = 0 THEN <<>>
    ELSE IF ZScoreAbove(window, value, sensitivity)
         THEN << [alert_type |-> "ANOMALY_DETECTED",
                  severity |-> IF ZScoreBelow(window, value, ANOMALY_HIGH_ZSCORE)
                               THEN "MEDIUM" ELSE "HIGH",
                  entity_type |-> "SYSTEM",
                  entity_id |-> "TRANSACTION_MONITOR",
                  threshold_value |-> AnomalyThresholdValue(window, sensitivity),
                  current_value |-> value] >>
         ELSE <<>>

\* -------------------------------------------------------------- AlertSystem
\* whether the delivery on each channel goes through
Channels == [slack : BOOLEAN, email : BOOLEAN]

\* a delivery can only fail on a configured channel, for an alert that reached
\* send_alert
CanSend(called) ==
    {sent \in Channels : /\ ~sent.slack => called /\ slack_enabled
                         /\ ~sent.email => called /\ email_enabled}

SendFailures(sent) ==
    (IF sent.slack THEN 0 ELSE 1) + (IF sent.email THEN 0 ELSE 1)

\* returns at once when the channel is not configured; an exception of the
\* request is printed
send_slack_alert(sent) ==
    IF ~slack_enabled THEN "off" ELSE IF sent.slack THEN "sent" ELSE "failed"

send_email_alert(sent) ==
    IF ~email_enabled THEN "off" ELSE IF sent.email THEN "sent" ELSE "failed"

\* a dispatcher that gives up after a failed Slack request
send_alert_StopsAfterSlack(alert, sent) ==
    [alert |-> alert, slack |-> send_slack_alert(sent),
     email |-> IF send_slack_alert(sent) = "failed" THEN "off"
               ELSE send_email_alert(sent)]

\* Slack first, then email, whatever Slack did; returns normally
send_alert(alert, sent) ==
    [alert |-> alert, slack |-> send_slack_alert(sent),
     email |-> send_email_alert(sent)]

\* ------------------------------------------------------------- create_alert
\* the id the alerts table assigns (SERIAL / AUTOINCREMENT): one more than
\* the number of rows ever inserted, deleted ones included
NextAlertId(st) == Len(st.alerts) + Cardinality(removed) + 1

\* a counter that counts the attempts, failed ones too
create_alert_CountsAttempts(st, alert_data, ok, sent, t) ==
    IF ok
    THEN [alerts |-> Append(st.alerts,
                        [alert_id |-> NextAlertId(st),
                         timestamp |-> t,
                         alert_type |-> alert_data.alert_type,
                         severity |-> alert_data.severity,
                         entity_type |-> alert_data.entity_type,
                         entity_id |-> alert_data.entity_id,
                         threshold_value |-> alert_data.threshold_value,
                         current_value |-> alert_data.current_value,
                         acknowledged |-> FALSE]),
          notifications |-> Append(st.notifications, alert_data),
          deliveries |-> Append(st.deliveries, send_alert(alert_data, sent)),
          alerts_generated |-> st.alerts_generated + 1]
    ELSE [st EXCEPT !.alerts_generated = @ + 1]

\* st = [alerts, notifications, deliveries, alerts_generated]; ok = the INSERT
\* and its commit succeed.  On failure the exception is printed and nothing
\* else runs.
create_alert(st, alert_data, ok, sent, t) ==
    IF ok
    THEN [alerts |-> Append(st.alerts,
                        [alert_id |-> NextAlertId(st),
                         timestamp |-> t,
                         alert_type |-> alert_data.alert_type,
                         severity |-> alert_data.severity,
                         entity_type |-> alert_data.entity_type,
                         entity_id |-> alert_data.entity_id,
                         threshold_value |-> alert_data.threshold_value,
                         current_value |-> alert_data.current_value,
                         acknowledged |-> FALSE]),
          notifications |-> Append(st.notifications, alert_data),
          deliveries |-> Append(st.deliveries, send_alert(alert_data, sent)),
          alerts_generated |-> st.alerts_generated + 1]
    ELSE st

\* checks that stop at the first alert the sink refused
ChecksAfterUntilFailure(candidates, ok) == IF ok THEN Tail(candidates) ELSE <<>>

\* create_alert returns None when the sink fails and the caller goes on with
\* its next check
ChecksAfter(candidates, ok) == Tail(candidates)

RECURSIVE CreateAlerts(_, _, _, _, _)
CreateAlerts(st, candidates, oks, sents, t) ==
    IF candidates = <<>> THEN st
    ELSE CreateAlerts(create_alert(st, Head(candidates), Head(oks), Head(sents), t),
                      ChecksAfter(candidates, Head(oks)), Tail(oks), Tail(sents), t)

SinkState == [alerts |-> alerts, notifications |-> notifications,
              deliveries |-> deliveries, alerts_generated |-> alerts_generated]

SetSink(st) ==
    /\ alerts' = st.alerts
    /\ notifications' = st.notifications
    /\ deliveries' = st.deliveries
    /\ alerts_generated' = st.alerts_generated

Failures(oks) == Cardinality({i \in DOMAIN oks : ~oks[i]})

RECURSIVE AllSendFailures(_)
AllSendFailures(sents) ==
    IF sents = <<>> THEN 0
    ELSE SendFailures(Head(sents)) + AllSendFailures(Tail(sents))

NewCycle == [fetchFailed |-> FALSE, txRaised |-> 0, selectFailed |-> FALSE,
             evaluated |-> {}, raised |-> {}, metrics |-> "none"]

\* AlertManager made no call yet
NoResult == [n |-> 0, op |-> "none"]

\* DatabaseConnection after connect(): nothing pending, no block open
NewConnection ==
    [committed |-> {}, pending |-> {}, blocks |-> <<>>, closed |-> {},
     outcomes |-> {}, opened |-> 0, executed |-> 0]

\* --------------------------------------------------------------------- Init
\* State after RiskEngine() with the configuration and the database contents
\* drawn from the given sets.  table is the transactions table found at start.
InitChanneled(setups, clientThrs, velocityThrs, clientTables, symbolTables, tables) ==
    /\ \E setup \in setups : /\ slack_enabled = setup.slack
                             /\ email_enabled = setup.email
    /\ CLIENT_EXPOSURE_THRESHOLD \in clientThrs
    /\ SYMBOL_EXPOSURE_THRESHOLD = 500000
    /\ TRANSACTION_VELOCITY_THRESHOLD \in velocityThrs
    /\ ANOMALY_DETECTION_THRESHOLD = 3
    /\ transactions_table \in tables
    /\ client_exposures \in clientTables
    /\ symbol_exposures \in symbolTables
    /\ alerts = <<>>
    /\ risk_metrics = <<>>
    /\ notifications = <<>>
    /\ deliveries = <<>>
    /\ running = FALSE
    /\ last_transaction_id = 0
    /\ alerts_generated = 0
    /\ transactions_processed = 0
    /\ client_transactions = <<>>
    /\ symbol_transactions = <<>>
    /\ transaction_values = <<>>
    /\ pc = "init"
    /\ iteration = 0
    /\ transactions = <<>>
    /\ txIdx = 1
    /\ rows = <<>>
    /\ now = 0
    /\ processed = <<>>
    /\ faults = 0
    /\ interruptedAt = "none"
    /\ cyc = NewCycle
    /\ recorded = <<>>
    /\ removed = {}
    /\ result = NoResult
    /\ db = NewConnection

\* SLACK_WEBHOOK_URL and SMTP_USERNAME / SMTP_PASSWORD unset, the default
NoChannels == [slack |-> FALSE, email |-> FALSE]

BothChannels == [slack |-> TRUE, email |-> TRUE]

InitConfigured(clientThrs, velocityThrs, clientTables, symbolTables, tables) ==
    InitChanneled({NoChannels}, clientThrs, velocityThrs, clientTables,
                  symbolTables, tables)

\* the default TRANSACTION_VELOCITY_THRESHOLD
InitWith(clientThresholds, clientTables, symbolTables, tables) ==
    InitConfigured(clientThresholds, {10}, clientTables, symbolTables, tables)

\* an exposure table whose rows hold the given totals and the default level
ExposureTable(totals) ==
    [k \in DOMAIN totals |-> [total_exposure |-> totals[k], risk_level |-> "LOW"]]

ClientTotals(a, b) == [c \in Clients |-> IF c = "CLIENT_001" THEN a ELSE b]

\* an exposure table without rows
NoTotals == [k \in {} |-> None]

SymbolTotals(a) == [s \in Symbols |-> a]

Init ==
    InitWith({1000000},
             {ExposureTable(ClientTotals(1250000, v)) : v \in {None, 800000}},
             {ExposureTable(SymbolTotals(v)) : v \in {None, 300000}},
             {<<>>})

\* ------------------------------------------------------- run / monitor_loop
\* run(): get_db_connection() succeeds, monitor_loop sets running and iteration
Start ==
    /\ pc = "init"
    /\ running' = TRUE
    /\ iteration' = 0
    /\ pc' = "loop"
    /\ UNCHANGED <<config, manager, db, transactions_table, client_exposures, symbol_exposures,
                   sink, risk_metrics, last_transaction_id, transactions_processed,
                   trackers, transactions, txIdx, rows, now, processed, faults,
                   interruptedAt, cyc>>

\* while self.running: iteration += 1
BeginCycleUpTo(cap) ==
    /\ pc = "loop"
    /\ running
    /\ iteration < cap
    /\ iteration' = iteration + 1
    /\ pc' = "fetch"
    /\ cyc' = NewCycle
    /\ UNCHANGED <<config, manager, db, transactions_table, client_exposures, symbol_exposures,
                   sink, risk_metrics, running, last_transaction_id,
                   transactions_processed, trackers, transactions, txIdx, rows,
                   now, processed, faults, interruptedAt>>

BeginCycle == BeginCycleUpTo(MaxCycles)

\* ------------------------------------------------- process_new_transactions
\* SELECT * FROM transactions WHERE transaction_id > ? ORDER BY transaction_id
FetchSinceInclusive(table, cursor) ==
    SelectSeq(table, LAMBDA tx : tx.transaction_id >= cursor)

FetchSince(table, cursor) ==
    SelectSeq(table, LAMBDA tx : tx.transaction_id > cursor)

FetchTransactions ==
    /\ pc = "fetch"
    /\ transactions' = FetchSince(transactions_table, last_transaction_id)
    /\ txIdx' = 1
    /\ pc' = "tx"
    /\ UNCHANGED <<config, manager, db, transactions_table, client_exposures, symbol_exposures,
                   sink, risk_metrics, running, last_transaction_id,
                   transactions_processed, trackers, iteration, rows, now,
                   processed, faults, interruptedAt, cyc>>

\* the SELECT raises: the except of process_new_transactions prints it
\* a handler that starts over from the beginning of the table
CursorAfterFetchErrorReset(cursor) == 0

\* the handler of process_new_transactions prints the error and assigns
\* nothing
CursorAfterFetchError(cursor) == cursor

\* the SELECT of the batch (or the connection) raises before any row is read
FetchTransactionsFails ==
    /\ pc = "fetch"
    /\ faults < MaxFaults
    /\ faults' = faults + 1
    /\ transactions' = <<>>
    /\ txIdx' = 1
    /\ last_transaction_id' = CursorAfterFetchError(last_transaction_id)
    /\ cyc' = [cyc EXCEPT !.fetchFailed = TRUE]
    /\ pc' = "clients"
    /\ UNCHANGED <<config, manager, db, transactions_table, client_exposures, symbol_exposures,
                   sink, risk_metrics, running, transactions_processed, trackers,
                   iteration, rows, now, processed, interruptedAt>>

\* the alerts one transaction may raise, in the order the code creates them
TransactionAlerts(tx, clientTracker, symbolTracker, window, t) ==
    detect_anomaly(window, tx.total_value, ANOMALY_DETECTION_THRESHOLD)
    \o check_transaction_velocity("CLIENT", tx.client_id, clientTracker[tx.client_id],
                                  TRANSACTION_VELOCITY_THRESHOLD, t)
    \o check_transaction_velocity("SYMBOL", tx.symbol, symbolTracker[tx.symbol],
                                  TRANSACTION_VELOCITY_THRESHOLD, t)

\* the two appends of lines 271-272, as one entry of the history
TrackerEvent(tx, t) == [client_id |-> tx.client_id, symbol |-> tx.symbol, at |-> t]

\* a cursor that counts transactions instead of taking the id
AdvanceCursorByOne(cursor, tx) == cursor + 1

\* self.last_transaction_id = tx['transaction_id']
AdvanceCursor(cursor, tx) == tx.transaction_id

\* one iteration of "for tx in transactions" that runs to its end
ProcessTransaction ==
    /\ pc = "tx"
    /\ txIdx <= Len(transactions)
    /\ LET tx == transactions[txIdx]
           ct == TrackerAppend(client_transactions, tx.client_id, now)
           sy == TrackerAppend(symbol_transactions, tx.symbol, now)
           tv == DequeAppend(transaction_values, tx.total_value, ANOMALY_WINDOW)
           candidates == TransactionAlerts(tx, ct, sy, tv, now)
       IN /\ tx.total_value # None
          /\ client_transactions' = ct
          /\ symbol_transactions' = sy
          /\ transaction_values' = tv
          /\ recorded' = Append(recorded, TrackerEvent(tx, now))
          /\ \E oks \in [1..Len(candidates) -> BOOLEAN],
                sents \in [1..Len(candidates) -> Channels] :
                /\ \A i \in DOMAIN sents : sents[i] \in CanSend(oks[i])
                /\ faults + Failures(oks) + AllSendFailures(sents) <= MaxFaults
                /\ faults' = faults + Failures(oks) + AllSendFailures(sents)
                /\ SetSink(CreateAlerts(SinkState, candidates, oks, sents, now))
          /\ transactions_processed' = transactions_processed + 1
          /\ last_transaction_id' = AdvanceCursor(last_transaction_id, tx)
          /\ processed' = Append(processed, tx.transaction_id)
    /\ txIdx' = txIdx + 1
    /\ UNCHANGED <<config, manager, db, transactions_table, client_exposures, symbol_exposures,
                   risk_metrics, running, pc, iteration, transactions, rows, now,
                   interruptedAt, cyc>>

\* a per-transaction try that skips the failing transaction and goes on
AfterTransactionErrorSkips(i) == [pc |-> "tx", txIdx |-> i + 1]

\* where control goes when the body of the for loop raises on transactions[i]:
\* the try of process_new_transactions encloses the whole loop
AfterTransactionError(i) == [pc |-> "clients", txIdx |-> i]

\* float(tx['total_value']) raises after both trackers were appended to
ProcessTransactionRaises ==
    /\ pc = "tx"
    /\ txIdx <= Len(transactions)
    /\ LET tx == transactions[txIdx]
       IN /\ tx.total_value = None
          /\ client_transactions' = TrackerAppend(client_transactions, tx.client_id, now)
          /\ symbol_transactions' = TrackerAppend(symbol_transactions, tx.symbol, now)
          /\ recorded' = Append(recorded, TrackerEvent(tx, now))
          /\ cyc' = [cyc EXCEPT !.txRaised = tx.transaction_id]
    /\ pc' = AfterTransactionError(txIdx).pc
    /\ txIdx' = AfterTransactionError(txIdx).txIdx
    /\ UNCHANGED <<config, manager, db, transactions_table, client_exposures, symbol_exposures,
                   sink, risk_metrics, running, last_transaction_id,
                   transactions_processed, transaction_values, iteration,
                   transactions, rows, now, processed, faults, interruptedAt>>

\* the for loop is exhausted and the with block commits
TransactionsDone ==
    /\ pc = "tx"
    /\ txIdx > Len(transactions)
    /\ pc' = "clients"
    /\ UNCHANGED <<config, manager, db, transactions_table, client_exposures, symbol_exposures,
                   sink, risk_metrics, running, last_transaction_id,
                   transactions_processed, trackers, iteration, transactions,
                   txIdx, rows, now, processed, faults, interruptedAt, cyc>>

\* ---------------------------------------------------------- check_exposures
\* float(row['total_exposure']) raises TypeError on NULL; exposure / threshold
\* raises ZeroDivisionError for a zero threshold
ExposureCheckRaises(exposure, threshold) == exposure = None \/ threshold = 0

\* rows of a SELECT key, total_exposure over an exposure table
ExposureRows(table, order) ==
    [i \in DOMAIN order |->
        [key |-> order[i], total_exposure |-> table[order[i]].total_exposure]]

\* UPDATE ... SET risk_level = ? WHERE key = ?
\* an UPDATE without its WHERE clause
SetRiskLevelEveryRow(table, key, level) ==
    [k \in DOMAIN table |-> [table[k] EXCEPT !.risk_level = level]]

SetRiskLevel(table, key, level) ==
    [k \in DOMAIN table |->
        IF k = key THEN [table[k] EXCEPT !.risk_level = level] ELSE table[k]]

\* an update that never reaches the store
update_risk_level_Skipped(table, key, level, ok) == table

\* update_client_risk_level, update_symbol_risk_level: ok = the UPDATE and its
\* commit succeed; an exception is printed
update_risk_level(table, key, level, ok) ==
    IF ok THEN SetRiskLevel(table, key, level) ELSE table

\* an exposure check whose error escapes check_exposures and ends the loop
AfterExposureErrorCrashes == "crashed"

\* where control goes when the check of one exposure row raises: the try of
\* check_exposures encloses both loops
AfterExposureError == "metrics"

SelectClientExposures ==
    /\ pc = "clients"
    /\ \E order \in RowOrders(DOMAIN client_exposures) :
          rows' = ExposureRows(client_exposures, order)
    /\ pc' = "client"
    /\ UNCHANGED <<config, manager, db, transactions_table, client_exposures, symbol_exposures,
                   sink, risk_metrics, running, last_transaction_id,
                   transactions_processed, trackers, iteration, transactions,
                   txIdx, now, processed, faults, interruptedAt, cyc>>

\* either SELECT of check_exposures raises
SelectExposuresFails ==
    /\ pc \in {"clients", "symbols"}
    /\ faults < MaxFaults
    /\ faults' = faults + 1
    /\ rows' = <<>>
    /\ cyc' = [cyc EXCEPT !.selectFailed = TRUE]
    /\ pc' = "metrics"
    /\ UNCHANGED <<config, manager, db, transactions_table, client_exposures, symbol_exposures,
                   sink, risk_metrics, running, last_transaction_id,
                   transactions_processed, trackers, iteration, transactions,
                   txIdx, now, processed, interruptedAt>>

\* check_client_exposure on the next row, then create_alert if it returned one
CheckClient ==
    /\ pc = "client"
    /\ rows # <<>>
    /\ LET row == Head(rows)
           exposure == row.total_exposure
           threshold == CLIENT_EXPOSURE_THRESHOLD
       IN /\ ~ExposureCheckRaises(exposure, threshold)
          /\ \E ok \in BOOLEAN :
             \E sent \in CanSend(ok /\ ExposureTriggered(exposure, threshold)) :
                /\ faults + (IF ok THEN 0 ELSE 1) + SendFailures(sent) <= MaxFaults
                /\ faults' = faults + (IF ok THEN 0 ELSE 1) + SendFailures(sent)
                /\ IF ExposureTriggered(exposure, threshold)
                   THEN /\ SetSink(create_alert(SinkState,
                                     ExposureAlert("HIGH_CLIENT_EXPOSURE", "CLIENT",
                                                   row.key, exposure, threshold),
                                     ok, sent, now))
                        /\ UNCHANGED client_exposures
                   ELSE /\ client_exposures' =
                              update_risk_level(client_exposures, row.key,
                                  calculate_risk_level(exposure, threshold), ok)
                        /\ UNCHANGED sink
          /\ cyc' = [cyc EXCEPT !.evaluated = @ \cup {<<"CLIENT", row.key>>}]
    /\ rows' = Tail(rows)
    /\ UNCHANGED <<config, manager, db, transactions_table, symbol_exposures, risk_metrics,
                   running, last_transaction_id, transactions_processed, trackers,
                   pc, iteration, transactions, txIdx, now, processed,
                   interruptedAt>>

CheckClientRaises ==
    /\ pc = "client"
    /\ rows # <<>>
    /\ ExposureCheckRaises(Head(rows).total_exposure, CLIENT_EXPOSURE_THRESHOLD)
    /\ cyc' = [cyc EXCEPT !.raised = @ \cup {<<"CLIENT", Head(rows).key>>}]
    /\ pc' = AfterExposureError
    /\ UNCHANGED <<config, manager, db, transactions_table, client_exposures, symbol_exposures,
                   sink, risk_metrics, running, last_transaction_id,
                   transactions_processed, trackers, iteration, transactions,
                   txIdx, rows, now, processed, faults, interruptedAt>>

ClientsDone ==
    /\ pc = "client"
    /\ rows = <<>>
    /\ pc' = "symbols"
    /\ UNCHANGED <<config, manager, db, transactions_table, client_exposures, symbol_exposures,
                   sink, risk_metrics, running, last_transaction_id,
                   transactions_processed, trackers, iteration, transactions,
                   txIdx, rows, now, processed, faults, interruptedAt, cyc>>

SelectSymbolExposures ==
    /\ pc = "symbols"
    /\ \E order \in RowOrders(DOMAIN symbol_exposures) :
          rows' = ExposureRows(symbol_exposures, order)
    /\ pc' = "symbol"
    /\ UNCHANGED <<config, manager, db, transactions_table, client_exposures, symbol_exposures,
                   sink, risk_metrics, running, last_transaction_id,
                   transactions_processed, trackers, iteration, transactions,
                   txIdx, now, processed, faults, interruptedAt, cyc>>

\* check_symbol_exposure on the next row, then create_alert if it returned one
CheckSymbol ==
    /\ pc = "symbol"
    /\ rows # <<>>
    /\ LET row == Head(rows)
           exposure == row.total_exposure
           threshold == SYMBOL_EXPOSURE_THRESHOLD
       IN /\ ~ExposureCheckRaises(exposure, threshold)
          /\ \E ok \in BOOLEAN :
             \E sent \in CanSend(ok /\ ExposureTriggered(exposure, threshold)) :
                /\ faults + (IF ok THEN 0 ELSE 1) + SendFailures(sent) <= MaxFaults
                /\ faults' = faults + (IF ok THEN 0 ELSE 1) + SendFailures(sent)
                /\ IF ExposureTriggered(exposure, threshold)
                   THEN /\ SetSink(create_alert(SinkState,
                                     ExposureAlert("HIGH_SYMBOL_EXPOSURE", "SYMBOL",
                                                   row.key, exposure, threshold),
                                     ok, sent, now))
                        /\ UNCHANGED symbol_exposures
                   ELSE /\ symbol_exposures' =
                              update_risk_level(symbol_exposures, row.key,
                                  calculate_risk_level(exposure, threshold), ok)
                        /\ UNCHANGED sink
          /\ cyc' = [cyc EXCEPT !.evaluated = @ \cup {<<"SYMBOL", row.key>>}]
    /\ rows' = Tail(rows)
    /\ UNCHANGED <<config, manager, db, transactions_table, client_exposures, risk_metrics,
                   running, last_transaction_id, transactions_processed, trackers,
                   pc, iteration, transactions, txIdx, now, processed,
                   interruptedAt>>

CheckSymbolRaises ==
    /\ pc = "symbol"
    /\ rows # <<>>
    /\ ExposureCheckRaises(Head(rows).total_exposure, SYMBOL_EXPOSURE_THRESHOLD)
    /\ cyc' = [cyc EXCEPT !.raised = @ \cup {<<"SYMBOL", Head(rows).key>>}]
    /\ pc' = AfterExposureError
    /\ UNCHANGED <<config, manager, db, transactions_table, client_exposures, symbol_exposures,
                   sink, risk_metrics, running, last_transaction_id,
                   transactions_processed, trackers, iteration, transactions,
                   txIdx, rows, now, processed, faults, interruptedAt>>

SymbolsDone ==
    /\ pc = "symbol"
    /\ rows = <<>>
    /\ pc' = "metrics"
    /\ UNCHANGED <<config, manager, db, transactions_table, client_exposures, symbol_exposures,
                   sink, risk_metrics, running, last_transaction_id,
                   transactions_processed, trackers, iteration, transactions,
                   txIdx, rows, now, processed, faults, interruptedAt, cyc>>

\* ------------------------------------------------------ update_risk_metrics
\* SUM(total_exposure): NULLs are ignored, NULL when no value is left
SumExposure(table) ==
    LET present == {k \in DOMAIN table : table[k].total_exposure # None}
        Sum[S \in SUBSET present] ==
            IF S = {} THEN 0
            ELSE LET k == CHOOSE x \in S : TRUE
                 IN table[k].total_exposure + Sum[S \ {k}]
    IN IF present = {} THEN None ELSE Sum[present]

ActiveCount(table) ==
    Cardinality({k \in DOMAIN table :
                    table[k].total_exposure # None /\ table[k].total_exposure > 0})

HighRiskCount(table) ==
    Cardinality({k \in DOMAIN table : table[k].risk_level \in {"HIGH", "CRITICAL"}})

MetricsRow(t) ==
    [timestamp |-> t,
     total_transactions |-> Len(transactions_table),
     total_exposure |-> SumExposure(client_exposures),
     active_clients |-> ActiveCount(client_exposures),
     active_symbols |-> ActiveCount(symbol_exposures),
     high_risk_clients |-> HighRiskCount(client_exposures),
     high_risk_symbols |-> HighRiskCount(symbol_exposures),
     alerts_generated |-> alerts_generated]

\* ok = every statement and the commit succeed; float(None) raises when the
\* SUM is NULL
update_risk_metrics(metrics, ok, t) ==
    IF ok /\ SumExposure(client_exposures) # None
    THEN Append(metrics, MetricsRow(t))
    ELSE metrics

\* a schedule that counts the cycles from zero
MetricsDueFromZero(n) == (n - 1) % METRICS_EVERY = 0

\* if iteration % 10 == 0: self.update_risk_metrics()
MetricsDue(n) == n % METRICS_EVERY = 0

MetricsStep ==
    /\ pc = "metrics"
    /\ \E ok \in BOOLEAN :
          /\ ~ok => MetricsDue(iteration) /\ faults < MaxFaults
          /\ faults' = IF ok THEN faults ELSE faults + 1
          /\ risk_metrics' = IF MetricsDue(iteration)
                             THEN update_risk_metrics(risk_metrics, ok, now)
                             ELSE risk_metrics
          /\ cyc' = [cyc EXCEPT !.metrics = IF ~MetricsDue(iteration) THEN "none"
                                            ELSE IF ok THEN "reached"
                                            ELSE "unreachable"]
    /\ pc' = "sleep"
    /\ UNCHANGED <<config, manager, db, transactions_table, client_exposures, symbol_exposures,
                   sink, running, last_transaction_id, transactions_processed,
                   trackers, iteration, transactions, txIdx, rows, now, processed,
                   interruptedAt>>

\* await asyncio.sleep(MONITORING_INTERVAL)
Sleep ==
    /\ pc = "sleep"
    /\ now' = now + MONITORING_INTERVAL
    /\ pc' = "loop"
    /\ UNCHANGED <<config, manager, db, transactions_table, client_exposures, symbol_exposures,
                   sink, risk_metrics, running, last_transaction_id,
                   transactions_processed, trackers, iteration, transactions,
                   txIdx, rows, processed, faults, interruptedAt, cyc>>

\* positions inside the try block of the while loop
CyclePositions == {"fetch", "tx", "clients", "client", "symbols", "symbol",
                   "metrics", "sleep"}

\* KeyboardInterrupt is raised wherever the loop body is executing; no callee
\* catches it (they catch Exception), the handler of monitor_loop clears
\* running and breaks
Interrupt ==
    /\ pc \in CyclePositions
    /\ running' = FALSE
    /\ interruptedAt' = pc
    /\ pc' = "stopped"
    /\ UNCHANGED <<config, manager, db, transactions_table, client_exposures, symbol_exposures,
                   sink, risk_metrics, last_transaction_id, transactions_processed,
                   trackers, iteration, transactions, txIdx, rows, now, processed,
                   faults, cyc>>

\* -------------------------------------------------------------- the producer
LastId(table) == IF table = <<>> THEN 0 ELSE table[Len(table)].transaction_id

\* TransactionSimulator.insert_transaction: the table assigns the next id
InsertTransactionUpTo(cap) ==
    /\ Len(transactions_table) < cap
    /\ \E c \in TxClients, s \in Symbols, v \in TxValues, gap \in 1..MaxIdGap :
          transactions_table' = Append(transactions_table,
              [transaction_id |-> LastId(transactions_table) + gap,
               client_id |-> c, symbol |-> s, total_value |-> v, timestamp |-> now])
    /\ UNCHANGED <<config, manager, db, client_exposures, symbol_exposures, sink, risk_metrics,
                   running, last_transaction_id, transactions_processed, trackers,
                   pc, iteration, transactions, txIdx, rows, now, processed,
                   faults, interruptedAt, cyc>>

InsertTransaction == InsertTransactionUpTo(MaxTx)

\* --------------------------------------------------------------------- Next
\* every step of the engine but the start of a cycle
EngineSteps ==
    \/ Start
    \/ FetchTransactions
    \/ FetchTransactionsFails
    \/ ProcessTransaction
    \/ ProcessTransactionRaises
    \/ TransactionsDone
    \/ SelectClientExposures
    \/ SelectExposuresFails
    \/ CheckClient
    \/ CheckClientRaises
    \/ ClientsDone
    \/ SelectSymbolExposures
    \/ CheckSymbol
    \/ CheckSymbolRaises
    \/ SymbolsDone
    \/ MetricsStep
    \/ Sleep

Engine == BeginCycle \/ EngineSteps

\* the engine, a stop signal, and the simulator appending transactions
Next == Engine \/ Interrupt \/ InsertTransaction

Spec == Init /\ [][Next]_vars

\* ----------------------------------------------- exposure classification runs
\* The engine started on a database that already holds two transactions, with
\* the client threshold and the exposure totals drawn from the domains below.
ClientThresholds == {-1000000, 0, 1000000}
ClientExposureValues ==
    {None, 400000, 500000, 600000, 750000, 800000, 1000000, 1250000, 1500000,
     1600000}
SecondClientValues == {None, 800000, 1600000}
SymbolExposureValues == {None, 300000, 500000, 850000}

StoredTransactions ==
    << [transaction_id |-> 1, client_id |-> "CLIENT_001", symbol |-> "AAPL",
        total_value |-> 1000, timestamp |-> 0],
       [transaction_id |-> 3, client_id |-> "CLIENT_002", symbol |-> "AAPL",
        total_value |-> None, timestamp |-> 0] >>

StoredTables == {SubSeq(StoredTransactions, 1, 1), StoredTransactions}

InitExposure ==
    InitWith(ClientThresholds,
             {ExposureTable(ClientTotals(a, b)) :
                 a \in ClientExposureValues, b \in SecondClientValues},
             {ExposureTable(t) : t \in [Symbols -> SymbolExposureValues]},
             StoredTables)

NextExposure == Engine \/ Interrupt

SpecExposure == InitExposure /\ [][NextExposure]_vars

\* ------------------------------------------------------------ long fair runs
\* Enough cycles for the metrics step to come due, on a database that already
\* holds the transactions; the loop itself is scheduled fairly (one thread
\* that keeps executing, asyncio.sleep returns), a stop signal is not.
LongCycles == METRICS_EVERY + ExtraCycles

BeginCycleLong == BeginCycleUpTo(LongCycles)

EngineLong == BeginCycleLong \/ EngineSteps

InitLong ==
    \/ InitWith({1000000}, {ExposureTable(ClientTotals(1250000, 800000))},
                {ExposureTable(SymbolTotals(300000))},
                {SubSeq(StoredTransactions, 1, 1)})
    \/ InitWith({1000000}, {ExposureTable(ClientTotals(1250000, 800000))},
                {ExposureTable(SymbolTotals(None))},
                {StoredTransactions})
    \/ InitWith({1000000}, {ExposureTable(ClientTotals(800000, None))},
                {ExposureTable(SymbolTotals(300000))},
                {SubSeq(StoredTransactions, 1, 1)})
    \/ InitWith({1000000}, {ExposureTable(NoTotals)},
                {ExposureTable(SymbolTotals(300000))},
                {SubSeq(StoredTransactions, 1, 1)})

NextLong == EngineLong \/ Interrupt

SpecLong == InitLong /\ [][NextLong]_vars /\ WF_vars(EngineLong)

\* ------------------------------------------------------------ AlertManager
\* The alert manager works on the alerts table beside the engine that fills
\* it; the clock is counted in seconds, the ages in days.
DaySeconds == 86400

\* a deletion that forgets the acknowledged condition
ExpiredWhateverState(alert, days, t) == alert.timestamp < t - days * DaySeconds

\* WHERE timestamp < now - days AND acknowledged
Expired(alert, days, t) ==
    alert.timestamp < t - days * DaySeconds /\ alert.acknowledged

\* UPDATE alerts SET acknowledged = TRUE WHERE alert_id = id
MarkAcknowledged(table, id) ==
    [i \in DOMAIN table |->
        IF table[i].alert_id = id THEN [table[i] EXCEPT !.acknowledged = TRUE]
        ELSE table[i]]

\* ok = the UPDATE and its commit succeed; returns True then, whatever the
\* number of rows the UPDATE touched, and False after an exception
acknowledge_alert(table, id, ok) ==
    [table |-> IF ok THEN MarkAcknowledged(table, id) ELSE table, value |-> ok]

\* count += 1 for every call that returned True
RECURSIVE acknowledge_multiple(_, _, _)
acknowledge_multiple(table, ids, oks) ==
    IF ids = <<>> THEN [table |-> table, value |-> 0]
    ELSE LET first == acknowledge_alert(table, Head(ids), Head(oks))
             rest == acknowledge_multiple(first.table, Tail(ids), Tail(oks))
         IN [table |-> rest.table,
             value |-> rest.value + (IF first.value THEN 1 ELSE 0)]

\* ok = the DELETE and its commit succeed; returns cursor.rowcount, and 0
\* after an exception, which rolls the DELETE back
delete_old_alerts(table, days, ok, t) ==
    LET Kept(alert) == ~Expired(alert, days, t)
    IN [table |-> IF ok THEN SelectSeq(table, Kept) ELSE table,
        value |-> IF ok THEN Len(table) - Len(SelectSeq(table, Kept)) ELSE 0]

\* the alert ids a caller may name: those assigned and one that is not
ManagedIds == 1..(MaxAlerts + 1)

ManagedDays == {0, 1}

\* the given ids whose alert exists in the table and is acknowledged
MarkedAmong(table, ids) ==
    {id \in {ids[k] : k \in DOMAIN ids} :
        \E i \in DOMAIN table : table[i].alert_id = id /\ table[i].acknowledged}

\* the engine writes an alert (create_alert with the sink working)
AlertCreated ==
    /\ NextAlertId(SinkState) <= MaxAlerts
    /\ SetSink(create_alert(SinkState,
                   ExposureAlert("HIGH_CLIENT_EXPOSURE", "CLIENT", "CLIENT_001",
                                 1250000, 1000000),
                   TRUE, [slack |-> TRUE, email |-> TRUE], now))
    /\ UNCHANGED <<config, manager, db, transactions_table, client_exposures,
                   symbol_exposures, risk_metrics, running, last_transaction_id,
                   transactions_processed, trackers, pc, iteration, transactions,
                   txIdx, rows, now, processed, faults, interruptedAt, cyc>>

ManagerCall(table, op, ids, value) ==
    /\ alerts' = table
    /\ result' = [n |-> result.n + 1, op |-> op, ids |-> ids, value |-> value,
                  marked |-> MarkedAmong(table, ids)]

AcknowledgeAlert ==
    /\ result.n < MaxCalls
    /\ \E id \in ManagedIds, ok \in BOOLEAN :
          LET r == acknowledge_alert(alerts, id, ok)
          IN /\ ~ok => faults < MaxFaults
             /\ faults' = IF ok THEN faults ELSE faults + 1
             /\ ManagerCall(r.table, "acknowledge_alert", <<id>>, r.value)
    /\ UNCHANGED <<config, db, transactions_table, client_exposures,
                   symbol_exposures, risk_metrics, running, last_transaction_id,
                   transactions_processed, trackers, pc, iteration, transactions,
                   txIdx, rows, now, processed, interruptedAt, cyc, notifications,
                   deliveries, alerts_generated, removed>>

AcknowledgeMultiple ==
    /\ result.n < MaxCalls
    /\ \E ids \in [1..2 -> ManagedIds], oks \in [1..2 -> BOOLEAN] :
          LET r == acknowledge_multiple(alerts, ids, oks)
          IN /\ faults + Failures(oks) <= MaxFaults
             /\ faults' = faults + Failures(oks)
             /\ ManagerCall(r.table, "acknowledge_multiple", ids, r.value)
    /\ UNCHANGED <<config, db, transactions_table, client_exposures,
                   symbol_exposures, risk_metrics, running, last_transaction_id,
                   transactions_processed, trackers, pc, iteration, transactions,
                   txIdx, rows, now, processed, interruptedAt, cyc, notifications,
                   deliveries, alerts_generated, removed>>

DeleteOldAlerts ==
    /\ result.n < MaxCalls
    /\ \E days \in ManagedDays, ok \in BOOLEAN :
          LET r == delete_old_alerts(alerts, days, ok, now)
              gone == {alerts[i] : i \in DOMAIN alerts} \ {r.table[i] : i \in DOMAIN r.table}
          IN /\ ~ok => faults < MaxFaults
             /\ faults' = IF ok THEN faults ELSE faults + 1
             /\ ManagerCall(r.table, "delete_old_alerts", <<>>, r.value)
             /\ removed' = removed \cup
                   {[alert |-> a, at |-> now, days |-> days, call |-> result.n + 1] :
                       a \in gone}
    /\ UNCHANGED <<config, db, transactions_table, client_exposures,
                   symbol_exposures, risk_metrics, running, last_transaction_id,
                   transactions_processed, trackers, pc, iteration, transactions,
                   txIdx, rows, now, processed, interruptedAt, cyc, notifications,
                   deliveries, alerts_generated>>

\* a day goes by
DayPasses ==
    /\ now < MaxDays * DaySeconds
    /\ now' = now + DaySeconds
    /\ UNCHANGED <<config, manager, db, transactions_table, client_exposures,
                   symbol_exposures, sink, risk_metrics, running,
                   last_transaction_id, transactions_processed, trackers, pc,
                   iteration, transactions, txIdx, rows, processed, faults,
                   interruptedAt, cyc>>

InitManager ==
    InitWith({1000000}, {ExposureTable(ClientTotals(1250000, 800000))},
             {ExposureTable(SymbolTotals(300000))}, {<<>>})

NextManager ==
    \/ AlertCreated
    \/ AcknowledgeAlert
    \/ AcknowledgeMultiple
    \/ DeleteOldAlerts
    \/ DayPasses

SpecManager == InitManager /\ [][NextManager]_vars

\* ------------------------------------------------------ DatabaseConnection
\* One connection carries every get_cursor block of an engine.  A block of
\* process_new_transactions or check_exposures only reads and may hold the
\* block of create_alert or of a risk-level update, which writes; the
\* handler of the inner method catches what the inner block re-raises, so
\* the outer block goes on.  Statements are numbered as they are executed,
\* cursors as they are opened.
BlockKinds == {"reader", "writer"}

\* the kinds of block that may be opened inside the open blocks
MayOpen(blocks) ==
    IF blocks = <<>> THEN BlockKinds
    ELSE IF Len(blocks) = 1 /\ blocks[1].kind = "reader" THEN {"writer"}
    ELSE {}

\* cursor = self.connection.cursor()
OpenCursor(conn, kind) ==
    [conn EXCEPT !.opened = @ + 1,
                 !.blocks = Append(@, [cursor |-> conn.opened + 1, kind |-> kind,
                                       own |-> {}, nested |-> {}])]

\* cursor.execute of a writing statement: pending on the connection
ExecuteOn(conn) ==
    LET stmt == conn.executed + 1
        depth == Len(conn.blocks)
    IN [conn EXCEPT !.executed = stmt,
                    !.pending = @ \cup {stmt},
                    !.blocks = [i \in 1..depth |->
                                   IF i = depth
                                   THEN [@[i] EXCEPT !.own = @ \cup {stmt}]
                                   ELSE [@[i] EXCEPT !.nested = @ \cup {stmt}]]]

\* an exit that leaves the statements of a raising block pending
ExitCursorKeepsPending(conn, raised, commitOk) ==
    LET block == conn.blocks[Len(conn.blocks)]
        how == IF raised THEN "raised" ELSE IF commitOk THEN "committed"
               ELSE "commit failed"
    IN [conn EXCEPT
          !.committed = IF how = "committed" THEN @ \cup conn.pending ELSE @,
          !.pending = IF how = "committed" THEN {} ELSE @,
          !.closed = @ \cup {block.cursor},
          !.blocks = SubSeq(@, 1, Len(@) - 1),
          !.outcomes = @ \cup {[cursor |-> block.cursor, how |-> how,
                                reraised |-> how # "committed",
                                own |-> block.own, nested |-> block.nested]}]

\* the end of a get_cursor block: commit() after the body ended normally;
\* rollback() and raise when the body or the commit raised; cursor.close()
\* in the finally clause.  Commit and rollback act on the whole connection.
ExitCursor(conn, raised, commitOk) ==
    LET block == conn.blocks[Len(conn.blocks)]
        how == IF raised THEN "raised" ELSE IF commitOk THEN "committed"
               ELSE "commit failed"
    IN [conn EXCEPT
          !.committed = IF how = "committed" THEN @ \cup conn.pending ELSE @,
          !.pending = {},
          !.closed = @ \cup {block.cursor},
          !.blocks = SubSeq(@, 1, Len(@) - 1),
          !.outcomes = @ \cup {[cursor |-> block.cursor, how |-> how,
                                reraised |-> how # "committed",
                                own |-> block.own, nested |-> block.nested]}]

ConnectionUnchanged ==
    UNCHANGED <<config, manager, transactions_table, client_exposures,
                symbol_exposures, sink, risk_metrics, running,
                last_transaction_id, transactions_processed, trackers, pc,
                iteration, transactions, txIdx, rows, now, processed,
                interruptedAt, cyc>>

\* with self.db.get_cursor() as cursor:
OpenBlock ==
    /\ db.opened < MaxBlocks
    /\ \E kind \in MayOpen(db.blocks) : db' = OpenCursor(db, kind)
    /\ UNCHANGED faults
    /\ ConnectionUnchanged

\* an INSERT, UPDATE or DELETE in the innermost block
ExecuteStatement ==
    /\ db.blocks # <<>>
    /\ db.blocks[Len(db.blocks)].kind = "writer"
    /\ db.executed < MaxStatements
    /\ db' = ExecuteOn(db)
    /\ UNCHANGED faults
    /\ ConnectionUnchanged

\* the body of the innermost block ends normally; the commit may fail
BlockEnds ==
    /\ db.blocks # <<>>
    /\ \E commitOk \in BOOLEAN :
          /\ ~commitOk => faults < MaxFaults
          /\ faults' = IF commitOk THEN faults ELSE faults + 1
          /\ db' = ExitCursor(db, FALSE, commitOk)
    /\ ConnectionUnchanged

\* the body of the innermost block raises: a statement fails, or the code
\* between the statements does
BlockRaises ==
    /\ db.blocks # <<>>
    /\ db' = ExitCursor(db, TRUE, TRUE)
    /\ UNCHANGED faults
    /\ ConnectionUnchanged

InitCursor ==
    InitWith({1000000}, {ExposureTable(ClientTotals(1250000, 800000))},
             {ExposureTable(SymbolTotals(300000))}, {<<>>})

NextCursor == OpenBlock \/ ExecuteStatement \/ BlockEnds \/ BlockRaises

SpecCursor == InitCursor /\ [][NextCursor]_vars

\* ------------------------------------------------- a producer beside the loop
\* The simulator appends transactions while the engine, scheduled fairly,
\* runs its cycles on a database that starts without transactions.  The
\* cycles are enough for every failure of the budget to cost one and a
\* further one to go through.
FeedCycles == MaxFaults + 2

BeginCycleFeed == BeginCycleUpTo(FeedCycles)

EngineFeed == BeginCycleFeed \/ EngineSteps

InitFeed ==
    \/ InitWith({1000000}, {ExposureTable(ClientTotals(800000, 400000))},
                {ExposureTable(SymbolTotals(300000))}, {<<>>})
    \/ InitWith({1000000}, {ExposureTable(ClientTotals(800000, None))},
                {ExposureTable(SymbolTotals(300000))}, {<<>>})
    \/ InitWith({1000000}, {ExposureTable(ClientTotals(800000, 400000))},
                {ExposureTable(SymbolTotals(None))}, {<<>>})

NextFeed == EngineFeed \/ InsertTransaction

SpecFeed == InitFeed /\ [][NextFeed]_vars /\ WF_vars(EngineFeed)

\* ------------------------------------------------- runs over stored streams
\* The engine started on a database that already holds a stream of
\* transactions (the simulator ran first), long enough for the minimum sample
\* count, the velocity threshold and the capacities to be reached.
Repeat(v, n) == [i \in 1..n |-> v]

Alternating(n) ==
    [i \in 1..n |-> IF i % 2 = 1 THEN "CLIENT_001" ELSE "CLIENT_002"]

\* rows with the ids 1.., the given values and clients, inserted at time t
StoredRowsAt(values, clients, t) ==
    [i \in DOMAIN values |->
        [transaction_id |-> i, client_id |-> clients[i], symbol |-> "AAPL",
         total_value |-> values[i], timestamp |-> t]]

\* rows inserted as the engine starts
StoredRows(values, clients) == StoredRowsAt(values, clients, 0)

\* 29 values that together with 1350 have mean 1000 and variance 100^2; then a
\* value far below and a value far above the mean
ValuesTo1350 ==
    Repeat(900, 9) \o Repeat(1100, 5) \o Repeat(950, 7) \o Repeat(1050, 8)
        \o <<1350, 500, 2000>>

\* 29 values that together with 1300 have mean 1000 and variance 100^2
ValuesTo1300 ==
    Repeat(900, 11) \o Repeat(1100, 8) \o Repeat(950, 4) \o Repeat(1050, 4)
        \o Repeat(1000, 2) \o <<1300>>

\* 29 values that together with 1400 have mean 1000 and variance 100^2
ValuesTo1400 ==
    Repeat(900, 7) \o Repeat(1100, 3) \o Repeat(950, 8) \o Repeat(1050, 8)
        \o Repeat(1000, 3) \o <<1400>>

\* more equal values than the window holds, a different one, a NULL one
ValuesPastCapacity == Repeat(10, ANOMALY_WINDOW) \o <<20, None>>

\* one client past the default velocity threshold, then a value that differs
ValuesOfBurst == Repeat(1000, 15) \o <<2000>>

ClientsOfBurst == Repeat("CLIENT_001", 15) \o <<"CLIENT_002">>

\* the burst was inserted two velocity windows before the engine started
BacklogAge == 2 * VELOCITY_WINDOW

\* a TRANSACTION_VELOCITY_THRESHOLD no tracker can reach
HighVelocityThreshold == 2 * TRACKER_MAXLEN

InitStream ==
    \/ InitChanneled({BothChannels}, {1000000}, {HighVelocityThreshold},
                     {ExposureTable(ClientTotals(1250000, 800000))},
                     {ExposureTable(SymbolTotals(300000))},
                     {StoredRows(ValuesTo1350, Alternating(Len(ValuesTo1350)))})
    \/ InitConfigured({1000000}, {HighVelocityThreshold},
                      {ExposureTable(ClientTotals(800000, None))},
                      {ExposureTable(SymbolTotals(300000))},
                      {StoredRows(ValuesTo1300, Alternating(Len(ValuesTo1300)))})
    \/ InitConfigured({1000000}, {HighVelocityThreshold},
                      {ExposureTable(ClientTotals(800000, 800000))},
                      {ExposureTable(SymbolTotals(None))},
                      {StoredRows(ValuesTo1400, Alternating(Len(ValuesTo1400)))})
    \/ InitConfigured({1000000}, {HighVelocityThreshold},
                      {ExposureTable(ClientTotals(800000, 800000))},
                      {ExposureTable(SymbolTotals(300000))},
                      {StoredRows(ValuesPastCapacity,
                                  Alternating(Len(ValuesPastCapacity)))})
    \/ InitChanneled({BothChannels}, {1000000}, {10},
                     {ExposureTable(ClientTotals(800000, 800000))},
                     {ExposureTable(SymbolTotals(300000))},
                     {StoredRowsAt(ValuesOfBurst, ClientsOfBurst, 0 - BacklogAge)})

\* asyncio.sleep returns later than asked for
SleepOverruns == {50, 55}

SleepOverrun ==
    /\ pc = "sleep"
    /\ \E d \in SleepOverruns : now' = now + MONITORING_INTERVAL + d
    /\ pc' = "loop"
    /\ UNCHANGED <<config, manager, db, transactions_table, client_exposures, symbol_exposures,
                   sink, risk_metrics, running, last_transaction_id,
                   transactions_processed, trackers, iteration, transactions,
                   txIdx, rows, processed, faults, interruptedAt, cyc>>

\* the simulator goes on appending to the shortest stream
InsertStreamed == InsertTransactionUpTo(Len(ValuesOfBurst) + MaxStreamed)

NextStream == Engine \/ SleepOverrun \/ InsertStreamed

SpecStream == InitStream /\ [][NextStream]_vars

\* =================================================================== claims
Last(q) == q[Len(q)]

MaxProcessed == IF processed = <<>> THEN 0 ELSE Last(processed)

IdsOf(q) == [i \in DOMAIN q |-> q[i].transaction_id]

ExposurePositions == {"clients", "client", "symbols", "symbol"}

\* positions of a cycle after process_new_transactions has returned
AfterTransactions == {"clients", "client", "symbols", "symbol", "metrics", "sleep"}

\* positions of a cycle after check_exposures has returned
AfterExposures == {"metrics", "sleep"}

Entities == {<<"CLIENT", c>> : c \in DOMAIN client_exposures}
            \cup {<<"SYMBOL", s>> : s \in DOMAIN symbol_exposures}

\* C1: the cursor never decreases, it always equals the largest transaction
\* id whose processing completed (0 before the first), and no step of
\* check_exposures, failing or not, changes it.
C1_CursorMonotone ==
    /\ [](last_transaction_id = MaxProcessed)
    /\ [][/\ last_transaction_id' >= last_transaction_id
          /\ pc \in ExposurePositions => last_transaction_id' = last_transaction_id]_vars

\* two transactions were processed and an exposure check of the cycle failed
C1_Witness ==
    /\ Len(processed) >= 2
    /\ last_transaction_id = Last(processed)
    /\ cyc.raised # {} \/ cyc.selectFailed

\* C2: the ids processed so far are strictly ascending and are exactly the
\* ids of the table up to the cursor, each once and in table order; and when
\* the transaction step of a cycle ends without a failure, every transaction
\* it fetched has been processed.
C2_ProcessedInOrderOnce ==
    /\ \A i, j \in DOMAIN processed : i < j => processed[i] < processed[j]
    /\ processed = IdsOf(SelectSeq(transactions_table,
                            LAMBDA tx : tx.transaction_id <= last_transaction_id))
    /\ (pc \in AfterTransactions /\ ~cyc.fetchFailed /\ cyc.txRaised = 0)
          => \A i \in DOMAIN transactions :
                \E k \in DOMAIN processed : processed[k] = transactions[i].transaction_id

\* the second cycle fetched and processed one transaction that arrived after
\* the first cycle had processed another
C2_Witness ==
    /\ iteration = 2
    /\ pc = "clients"
    /\ ~cyc.fetchFailed /\ cyc.txRaised = 0
    /\ Len(transactions) = 1
    /\ Len(processed) = 2

\* C3 (as claimed): when the transaction step of a cycle is over, every
\* fetched transaction whose own processing does not raise has been processed,
\* whether or not another transaction of the batch raised.
C3_RestOfBatchProcessed ==
    (pc \in AfterTransactions /\ ~cyc.fetchFailed)
        => \A i \in DOMAIN transactions :
              transactions[i].total_value # None
                 => \E k \in DOMAIN processed :
                       processed[k] = transactions[i].transaction_id

\* C4: after the processing of transaction t raised, the cursor is the id of
\* the last transaction processed before t (the one preceding t in the batch,
\* or the cursor the batch was fetched with when t came first), and the next
\* fetch returns t first.
C4_CursorBeforeFailed ==
    cyc.txRaised # 0 =>
        /\ last_transaction_id = MaxProcessed
        /\ txIdx > 1 => last_transaction_id = transactions[txIdx - 1].transaction_id
        /\ last_transaction_id < cyc.txRaised
        /\ FetchSince(transactions_table, last_transaction_id) # <<>>
        /\ Head(FetchSince(transactions_table, last_transaction_id)).transaction_id
              = cyc.txRaised

\* the second transaction of a batch raised after the first was processed
C4_Witness ==
    /\ cyc.txRaised # 0
    /\ txIdx = 2
    /\ last_transaction_id = transactions[1].transaction_id

\* C5 (as claimed): when check_exposures is over and both of its SELECTs
\* succeeded, every client and symbol of the store whose own check did not
\* raise has been evaluated in this cycle.
C5_OtherEntitiesEvaluated ==
    (pc \in AfterExposures /\ ~cyc.selectFailed)
        => \A e \in Entities : e \notin cyc.raised => e \in cyc.evaluated

\* C6: unless a stop was requested, the loop goes on: from every point of
\* cycle n, whatever failed in it (fetch, exposure read, a check, an alert
\* insert, the metrics write), cycle n + 1 eventually starts.
C6_LoopContinues ==
    \A n \in 1..(LongCycles - 1) :
        (iteration = n /\ pc # "init") ~> (iteration = n + 1 \/ interruptedAt # "none")

\* the metrics write of cycle 10 failed and cycle 11 has started
C6_Witness ==
    /\ iteration = METRICS_EVERY + 1
    /\ risk_metrics = <<>>
    /\ pc = "fetch"
    /\ interruptedAt = "none"

\* C7 (as claimed): the loop is left only from the wait between two cycles,
\* after every step of the cycle in progress has run.
C7_StopOnlyBetweenCycles ==
    pc = "stopped" => interruptedAt = "sleep"

\* C8 (as claimed): with a threshold that is not positive the engine never
\* enters the running state and never starts a cycle.
C8_RefusesBadThreshold ==
    (\/ CLIENT_EXPOSURE_THRESHOLD <= 0
     \/ SYMBOL_EXPOSURE_THRESHOLD <= 0
     \/ TRANSACTION_VELOCITY_THRESHOLD <= 0
     \/ ANOMALY_DETECTION_THRESHOLD <= 0)
        => ~running /\ iteration = 0

ExposureAlertTypes == {"HIGH_CLIENT_EXPOSURE", "HIGH_SYMBOL_EXPOSURE"}

HasAlert(alertType, key) ==
    \E i \in DOMAIN alerts :
        alerts[i].alert_type = alertType /\ alerts[i].entity_id = key

\* the total an exposure table holds for an entity, and its threshold
TotalOf(e) ==
    IF e[1] = "CLIENT" THEN client_exposures[e[2]].total_exposure
    ELSE symbol_exposures[e[2]].total_exposure

ThresholdOf(e) ==
    IF e[1] = "CLIENT" THEN CLIENT_EXPOSURE_THRESHOLD ELSE SYMBOL_EXPOSURE_THRESHOLD

AlertTypeOf(e) ==
    IF e[1] = "CLIENT" THEN "HIGH_CLIENT_EXPOSURE" ELSE "HIGH_SYMBOL_EXPOSURE"

\* C9 (as claimed): an entity evaluated with an exposure equal to its
\* threshold, the alert sink working, has an exposure alert.
C9_TriggeredAtThreshold ==
    \A e \in Entities :
        (e \in cyc.evaluated /\ TotalOf(e) = ThresholdOf(e) /\ faults = 0)
            => HasAlert(AlertTypeOf(e), e[2])

\* C9 (amended): an exposure alert is emitted only for an exposure strictly
\* above the threshold: an entity evaluated at exactly the threshold gets no
\* alert, one evaluated above it gets one.
C9_TriggeredOnlyAbove ==
    /\ \A i \in DOMAIN alerts :
          alerts[i].alert_type \in ExposureAlertTypes
             => alerts[i].current_value > alerts[i].threshold_value
    /\ \A e \in Entities :
          (e \in cyc.evaluated /\ faults = 0)
             => /\ TotalOf(e) = ThresholdOf(e) => ~HasAlert(AlertTypeOf(e), e[2])
                /\ TotalOf(e) > ThresholdOf(e) => HasAlert(AlertTypeOf(e), e[2])

\* a client and a symbol were evaluated with an exposure equal to their
\* threshold
C9_Witness ==
    /\ faults = 0
    /\ \E c \in DOMAIN client_exposures :
          /\ <<"CLIENT", c>> \in cyc.evaluated
          /\ client_exposures[c].total_exposure = CLIENT_EXPOSURE_THRESHOLD
    /\ \E y \in DOMAIN symbol_exposures :
          /\ <<"SYMBOL", y>> \in cyc.evaluated
          /\ symbol_exposures[y].total_exposure = SYMBOL_EXPOSURE_THRESHOLD

\* C10: an exposure alert is CRITICAL exactly when its exposure is strictly
\* greater than 1.5 times its threshold and HIGH otherwise; with threshold
\* 1,000,000 an alert at 1,250,000 or 1,500,000 is HIGH, one at 1,600,000 is
\* CRITICAL.
C10_SeverityBoundary ==
    \A i \in DOMAIN alerts :
        alerts[i].alert_type \in ExposureAlertTypes =>
            /\ alerts[i].severity \in {"HIGH", "CRITICAL"}
            /\ alerts[i].severity = "CRITICAL"
                  <=> 2 * alerts[i].current_value > 3 * alerts[i].threshold_value
            /\ (alerts[i].threshold_value = 1000000
                  /\ alerts[i].current_value \in {1250000, 1500000})
                  => alerts[i].severity = "HIGH"
            /\ (alerts[i].threshold_value = 1000000 /\ alerts[i].current_value = 1600000)
                  => alerts[i].severity = "CRITICAL"

\* against the threshold 1,000,000 one client raised an alert at exactly 1.5
\* times the threshold (HIGH) and the other one at 1,600,000 (CRITICAL)
C10_Witness ==
    /\ \E i \in DOMAIN alerts :
          /\ alerts[i].threshold_value = 1000000
          /\ alerts[i].current_value = 1500000
          /\ alerts[i].severity = "HIGH"
    /\ \E i \in DOMAIN alerts :
          /\ alerts[i].threshold_value = 1000000
          /\ alerts[i].current_value = 1600000
          /\ alerts[i].severity = "CRITICAL"

\* the risk_level an exposure table holds for an entity
RiskLevelOf(e) ==
    IF e[1] = "CLIENT" THEN client_exposures[e[2]].risk_level
    ELSE symbol_exposures[e[2]].risk_level

\* C11: an entity evaluated below its threshold, every write succeeding, has
\* the risk_level LOW when exposure / threshold < 0.5, MEDIUM when
\* 0.5 <= ratio < 0.75 and HIGH when 0.75 <= ratio < 1.0, and has no exposure
\* alert.
C11_TierBelowThreshold ==
    \A e \in Entities :
        (/\ e \in cyc.evaluated
         /\ faults = 0
         /\ ThresholdOf(e) > 0
         /\ TotalOf(e) < ThresholdOf(e))
            => /\ RiskLevelOf(e) =
                     IF 2 * TotalOf(e) < ThresholdOf(e) THEN "LOW"
                     ELSE IF 4 * TotalOf(e) < 3 * ThresholdOf(e) THEN "MEDIUM"
                     ELSE "HIGH"
               /\ ~HasAlert(AlertTypeOf(e), e[2])

\* a client at exactly 75% of its threshold and a client at 80% were evaluated
\* and are tagged HIGH without an alert, and a symbol at 60% is tagged MEDIUM
C11_Witness ==
    /\ faults = 0
    /\ CLIENT_EXPOSURE_THRESHOLD = 1000000
    /\ cyc.evaluated = Entities
    /\ client_exposures["CLIENT_001"].total_exposure = 750000
    /\ client_exposures["CLIENT_001"].risk_level = "HIGH"
    /\ client_exposures["CLIENT_002"].total_exposure = 800000
    /\ client_exposures["CLIENT_002"].risk_level = "HIGH"
    /\ symbol_exposures["AAPL"].total_exposure = 300000
    /\ symbol_exposures["AAPL"].risk_level = "MEDIUM"
    /\ alerts = <<>>

\* C12 (as claimed): a risk_level the engine wrote is CRITICAL only for an
\* exposure strictly greater than 1.5 times the threshold; an entity evaluated
\* with threshold <= exposure <= 1.5 times the threshold is not CRITICAL.
C12_CriticalOnlyAboveOneAndAHalf ==
    \A e \in Entities :
        (e \in cyc.evaluated /\ TotalOf(e) # None /\ ThresholdOf(e) > 0)
            => (RiskLevelOf(e) = "CRITICAL"
                   => 2 * TotalOf(e) > 3 * ThresholdOf(e))

\* C13 (as claimed): an entity evaluated in this cycle, every write
\* succeeding, holds the risk_level the classifier computes from its
\* total_exposure and threshold, whether or not it raised an alert.
C13_RiskLevelIsClassifierTier ==
    \A e \in Entities :
        (e \in cyc.evaluated /\ faults = 0)
            => RiskLevelOf(e) = calculate_risk_level(TotalOf(e), ThresholdOf(e))

\* the exposure alerts raised so far for an entity
ExposureAlertsOf(e) ==
    {i \in DOMAIN alerts :
        alerts[i].alert_type = AlertTypeOf(e) /\ alerts[i].entity_id = e[2]}

\* C14 (as claimed): when the exposure step of cycle N is over and no store
\* or sink operation has failed, an entity whose exposure is above its
\* threshold has exactly N exposure alerts.
C14_OneAlertPerCycle ==
    \A e \in Entities :
        (/\ pc \in AfterExposures
         /\ faults = 0
         /\ TotalOf(e) # None
         /\ TotalOf(e) > ThresholdOf(e))
            => Cardinality(ExposureAlertsOf(e)) = iteration

\* ---------------------------------------------------------- window, trackers
Min(a, b) == IF a < b THEN a ELSE b

\* the last n elements of q
LastOf(q, n) == SubSeq(q, Len(q) - n + 1, Len(q))

RowOfId(id) ==
    transactions_table[CHOOSE i \in DOMAIN transactions_table :
                           transactions_table[i].transaction_id = id]

\* the values pushed so far, in push order: one per processed transaction
PushedValues == [k \in DOMAIN processed |-> RowOfId(processed[k]).total_value]

\* the last W values pushed before the k-th push
PushedBefore(k) ==
    LastOf(SubSeq(PushedValues, 1, k - 1), Min(k - 1, ANOMALY_WINDOW))

AnomalyAlerts == {i \in DOMAIN alerts : alerts[i].alert_type = "ANOMALY_DETECTED"}

\* C15 (as claimed): every value is scored against the window as it was before
\* that value was pushed, so with the sink working the anomaly alerts are those
\* of the processed transactions whose value the detector flags against the
\* values pushed before it.
C15_ScoreThenPush ==
    faults = 0 =>
        Cardinality(AnomalyAlerts) =
            Cardinality({k \in DOMAIN processed :
                detect_anomaly(PushedBefore(k), PushedValues[k],
                               ANOMALY_DETECTION_THRESHOLD) # <<>>})

\* the alerts a step added to the alerts table
AddedAlerts == {alerts'[i] : i \in (Len(alerts) + 1)..Len(alerts')}

AddedAnomalies == {a \in AddedAlerts : a.alert_type = "ANOMALY_DETECTED"}

AllEqual(q) == \A i, j \in DOMAIN q : q[i] = q[j]

C18_WindowIsLastPushes ==
    /\ Len(transaction_values) <= ANOMALY_WINDOW
    /\ transaction_values =
          LastOf(PushedValues, Min(Len(PushedValues), ANOMALY_WINDOW))

\* more than W values were pushed and the oldest was evicted
C18_Witness ==
    /\ Len(processed) > ANOMALY_WINDOW
    /\ Len(transaction_values) = ANOMALY_WINDOW
    /\ transaction_values[ANOMALY_WINDOW] = 20
    /\ transaction_values[1] = 10

Ascending(q) == \A i, j \in DOMAIN q : i < j => q[i] <= q[j]

\* C19: every tracker sequence holds between 1 and C = 100 timestamps in
\* ascending order, and the keys that have a sequence are exactly the clients
\* and the symbols of the events recorded so far.
C19_TrackersBoundedAscending ==
    /\ \A c \in DOMAIN client_transactions :
          /\ Len(client_transactions[c]) \in 1..TRACKER_MAXLEN
          /\ Ascending(client_transactions[c])
    /\ \A y \in DOMAIN symbol_transactions :
          /\ Len(symbol_transactions[y]) \in 1..TRACKER_MAXLEN
          /\ Ascending(symbol_transactions[y])
    /\ DOMAIN client_transactions = {recorded[i].client_id : i \in DOMAIN recorded}
    /\ DOMAIN symbol_transactions = {recorded[i].symbol : i \in DOMAIN recorded}

\* more than C events were recorded for a symbol, at different times, and both
\* clients have a sequence
C19_Witness ==
    /\ Len(recorded) > TRACKER_MAXLEN
    /\ Len(symbol_transactions["AAPL"]) = TRACKER_MAXLEN
    /\ symbol_transactions["AAPL"][1] < symbol_transactions["AAPL"][TRACKER_MAXLEN]
    /\ DOMAIN client_transactions = Clients

\* the events recorded for a key of a tracker
RecordedFor(entityType, key) ==
    {i \in DOMAIN recorded :
        IF entityType = "CLIENT" THEN recorded[i].client_id = key
        ELSE recorded[i].symbol = key}

\* the recorded events of a key that are strictly later than now - window
RecordedSinceCutoff(entityType, key) ==
    {i \in RecordedFor(entityType, key) : recorded[i].at > now - VELOCITY_WINDOW}

\* C20: for a key with at most C = 100 recorded timestamps, the count the
\* velocity check takes from the tracker is the number of timestamps recorded
\* for that key strictly after the cutoff now - 60, and it is the value a
\* velocity alert reports.
C20_CountSinceCutoffExact ==
    /\ [](/\ \A c \in DOMAIN client_transactions :
                Cardinality(RecordedFor("CLIENT", c)) <= TRACKER_MAXLEN
                   => RecentCount(client_transactions[c], now)
                         = Cardinality(RecordedSinceCutoff("CLIENT", c))
          /\ \A y \in DOMAIN symbol_transactions :
                Cardinality(RecordedFor("SYMBOL", y)) <= TRACKER_MAXLEN
                   => RecentCount(symbol_transactions[y], now)
                         = Cardinality(RecordedSinceCutoff("SYMBOL", y)))
    /\ [][\A a \in AddedAlerts :
            (/\ a.alert_type = "HIGH_TRANSACTION_VELOCITY"
             /\ Cardinality(RecordedFor(a.entity_type, a.entity_id)')
                   <= TRACKER_MAXLEN)
               => a.current_value
                     = Cardinality(RecordedSinceCutoff(a.entity_type, a.entity_id)')]_vars

\* a transaction of CLIENT_001 was processed exactly 60 seconds after the
\* burst before it: its timestamps are at the cutoff and are not counted
C20_Witness ==
    /\ now = VELOCITY_WINDOW
    /\ "CLIENT_002" \in DOMAIN client_transactions
    /\ Len(processed) > Len(ValuesOfBurst)
    /\ Cardinality({i \in RecordedFor("CLIENT", "CLIENT_001") : recorded[i].at = 0})
          = Len(ValuesOfBurst) - 1
    /\ RecentCount(client_transactions["CLIENT_001"], now) = 1
    /\ \E i \in DOMAIN alerts :
          /\ alerts[i].alert_type = "HIGH_TRANSACTION_VELOCITY"
          /\ alerts[i].entity_id = "CLIENT_001"
          /\ alerts[i].current_value = 11

VelocityAlerts == {i \in DOMAIN alerts : alerts[i].alert_type = "HIGH_TRANSACTION_VELOCITY"}

\* the velocity alerts a step added for an entity
AddedVelocity(entityType, key) ==
    {a \in AddedAlerts : /\ a.alert_type = "HIGH_TRANSACTION_VELOCITY"
                         /\ a.entity_type = entityType
                         /\ a.entity_id = key}

\* the timestamps of a tracker sequence inside the trailing window
InWindow(timestamps) ==
    Cardinality({i \in DOMAIN timestamps : timestamps[i] > now - VELOCITY_WINDOW})

\* C21: with a velocity threshold T >= 1 and the sink working, processing a
\* transaction adds a velocity alert for its client (its symbol) exactly when
\* more than T of the entity's tracked timestamps lie inside the trailing
\* window; the alert carries that count as current_value and T as
\* threshold_value; 15 timestamps against T = 10 give an alert with 15 and 10.
C21_VelocityAlertIffAbove ==
    [][(/\ processed' # processed
        /\ faults' = faults
        /\ TRANSACTION_VELOCITY_THRESHOLD >= 1)
          => LET tx == transactions[txIdx]
                 T == TRANSACTION_VELOCITY_THRESHOLD
                 Checked(entityType, key, timestamps) ==
                     /\ AddedVelocity(entityType, key) # {}
                           <=> InWindow(timestamps) > T
                     /\ \A a \in AddedVelocity(entityType, key) :
                           /\ a.current_value = InWindow(timestamps)
                           /\ a.threshold_value = T
                     /\ (InWindow(timestamps) = 15 /\ T = 10)
                           => \E a \in AddedVelocity(entityType, key) :
                                 a.current_value = 15 /\ a.threshold_value = 10
             IN /\ Checked("CLIENT", tx.client_id,
                           client_transactions'[tx.client_id])
                /\ Checked("SYMBOL", tx.symbol, symbol_transactions'[tx.symbol])]_vars

\* fifteen transactions of CLIENT_001 were processed against T = 10: the
\* fifteenth raised an alert with 15 and 10, the tenth and those before none
C21_Witness ==
    /\ faults = 0
    /\ TRANSACTION_VELOCITY_THRESHOLD = 10
    /\ Len(processed) >= 15
    /\ \E i \in VelocityAlerts :
          /\ alerts[i].entity_id = "CLIENT_001"
          /\ alerts[i].current_value = 15
          /\ alerts[i].threshold_value = 10
    /\ \A i \in VelocityAlerts : alerts[i].current_value > 10

\* the stored transactions of an entity whose own timestamp lies inside the
\* window that ends at time t
OwnTimestampsInWindow(entityType, key, t) ==
    {i \in DOMAIN transactions_table :
        /\ IF entityType = "CLIENT" THEN transactions_table[i].client_id = key
           ELSE transactions_table[i].symbol = key
        /\ transactions_table[i].timestamp > t - VELOCITY_WINDOW}

\* C22 (as claimed): the trackers hold the transactions' own timestamps, so a
\* velocity alert exists only for an entity with more than T transactions
\* whose own timestamp lies inside the window that ends when the alert is
\* raised.
C22_CountsOwnTimestamps ==
    \A i \in VelocityAlerts :
        Cardinality(OwnTimestampsInWindow(alerts[i].entity_type, alerts[i].entity_id,
                                          alerts[i].timestamp))
            > TRANSACTION_VELOCITY_THRESHOLD

\* the dispatcher invocations made so far for an entity's exposure alert
DispatchesOf(e) ==
    {i \in DOMAIN notifications :
        /\ notifications[i].alert_type = AlertTypeOf(e)
        /\ notifications[i].entity_id = e[2]}

\* C23 (as claimed): an entity evaluated in the first cycle with an exposure
\* above its threshold has had the notification dispatcher invoked exactly
\* once, whether or not the write of its alert to the sink succeeded.
C23_DispatchedOncePerTrigger ==
    \A e \in Entities :
        (/\ iteration = 1
         /\ e \in cyc.evaluated
         /\ TotalOf(e) # None
         /\ ExposureTriggered(TotalOf(e), ThresholdOf(e)))
            => Cardinality(DispatchesOf(e)) = 1

\* the deliveries a step added
AddedDeliveries == (Len(deliveries) + 1)..Len(deliveries')

\* C24: a failing notification channel never propagates.  On every step that
\* dispatches an alert, a failed Slack request leaves the email channel
\* attempted when it is configured, the stored alert and its count are kept,
\* and the step ends where it ends without the failure: a transaction is
\* marked as processed and the cursor moves to it, an exposure row is done and
\* the step goes on to the next row.
C24_ChannelFailureContained ==
    [][\A i \in AddedDeliveries :
          LET d == deliveries'[i]
          IN /\ (d.slack = "failed" /\ email_enabled) => d.email \in {"sent", "failed"}
             /\ Len(alerts') = Len(deliveries')
             /\ alerts'[i].alert_type = d.alert.alert_type
             /\ alerts'[i].entity_id = d.alert.entity_id
             /\ alerts_generated' = alerts_generated + Cardinality(AddedDeliveries)
             /\ pc = "tx" =>
                   /\ processed' = Append(processed, transactions[txIdx].transaction_id)
                   /\ last_transaction_id' = transactions[txIdx].transaction_id
                   /\ pc' = "tx"
             /\ pc \in {"client", "symbol"} => rows' = Tail(rows) /\ pc' = pc]_vars

\* a Slack request failed, the email of the same alert was sent, the alert is
\* stored, and a later alert was raised after it
C24_Witness ==
    \E i \in DOMAIN deliveries :
        /\ deliveries[i].slack = "failed"
        /\ deliveries[i].email = "sent"
        /\ alerts[i].entity_id = deliveries[i].alert.entity_id
        /\ alerts_generated > i
        /\ Len(deliveries) > i

\* the sink writes that failed in a step: the faults it added that are not
\* failed deliveries
FailedDeliveries ==
    Cardinality({i \in AddedDeliveries : deliveries'[i].slack = "failed"})
    + Cardinality({i \in AddedDeliveries : deliveries'[i].email = "failed"})

FailedSinkWrites == faults' - faults - FailedDeliveries

\* C25: a sink failure while creating the anomaly or a velocity alert of a
\* transaction t is swallowed: every check of t is still made and each alert
\* it yields is either stored or failed once, t counts as processed, the
\* cursor moves to t, and t was never processed before, so the failed alert is
\* not attempted again.
C25_SinkFailureSkipsOneAlert ==
    [][processed' # processed
          => LET tx == transactions[txIdx]
                 due == TransactionAlerts(tx, client_transactions',
                                          symbol_transactions', transaction_values', now)
             IN /\ Len(alerts') - Len(alerts) + FailedSinkWrites = Len(due)
                /\ \A a \in AddedAlerts :
                      \E k \in DOMAIN due : /\ due[k].alert_type = a.alert_type
                                            /\ due[k].entity_id = a.entity_id
                /\ processed' = Append(processed, tx.transaction_id)
                /\ \A i \in DOMAIN processed : processed[i] # tx.transaction_id
                /\ last_transaction_id' = tx.transaction_id
                /\ transactions_processed' = transactions_processed + 1
                /\ txIdx' = txIdx + 1 /\ pc' = "tx"]_vars

\* the client velocity alert of a transaction failed at the sink, its symbol
\* velocity alert was stored, and the transactions after it were processed
C25_Witness ==
    /\ faults = 1
    /\ Len(deliveries) = Len(alerts)
    /\ \A i \in DOMAIN deliveries :
          deliveries[i].slack # "failed" /\ deliveries[i].email # "failed"
    /\ \E i \in VelocityAlerts :
          /\ alerts[i].entity_type = "SYMBOL"
          /\ \A j \in VelocityAlerts :
                ~(/\ alerts[j].entity_type = "CLIENT"
                  /\ alerts[j].entity_id = "CLIENT_001"
                  /\ alerts[j].current_value = alerts[i].current_value)
    /\ Len(processed) = Len(ValuesOfBurst)
    /\ last_transaction_id = processed[Len(processed)]

\* ------------------------------------------------------------------ metrics
\* C26: in a cycle that reached its sleep, the metrics aggregator was invoked
\* if and only if the cycle number, counted from 1, is a multiple of 10; it
\* is invoked only after the transaction step and the exposure step, and also
\* in a cycle in which those steps failed.
C26_MetricsEveryTenthCycle ==
    /\ pc = "sleep" => (cyc.metrics # "none" <=> iteration % 10 = 0)
    /\ pc \in CyclePositions \ {"sleep"} => cyc.metrics = "none"

\* the tenth cycle invoked the aggregator although a row of each earlier step
\* raised or a select failed
C26_Witness ==
    /\ pc = "sleep"
    /\ iteration = 10
    /\ cyc.metrics = "reached"
    /\ cyc.txRaised # 0 \/ cyc.fetchFailed
    /\ cyc.raised # {} \/ cyc.selectFailed

\* C27 (as claimed): every invocation of the aggregator that reached its sink
\* has appended one snapshot row: after the k-th due cycle with every
\* invocation reaching the sink the snapshot table holds k rows, whatever the
\* stores hold.
C27_OneRowPerInvocation ==
    (pc = "sleep" /\ cyc.metrics = "reached" /\ faults = 0)
        => Len(risk_metrics) = iteration \div METRICS_EVERY

\* ------------------------------------------------------- concurrent producer
StoredIds == {transactions_table[i].transaction_id : i \in DOMAIN transactions_table}

ProcessedIds == {processed[i] : i \in DOMAIN processed}

\* the cycles left suffice for every failure still possible and one more cycle
CyclesLeft == iteration + (MaxFaults - faults) + 1 <= FeedCycles

TierOf(e) == calculate_risk_level(TotalOf(e), ThresholdOf(e))

NotTriggered(e) ==
    /\ TotalOf(e) # None
    /\ ThresholdOf(e) # 0
    /\ ~ExposureTriggered(TotalOf(e), ThresholdOf(e))

OneEffect(e) == (ExposureAlertsOf(e) # {}) # (RiskLevelOf(e) = TierOf(e))

FailsEveryTime(id) == id \in StoredIds /\ RowOfId(id).total_value = None

RowsOfClient(c) ==
    {i \in DOMAIN transactions_table : transactions_table[i].client_id = c}

RowsOfSymbol(y) ==
    {i \in DOMAIN transactions_table : transactions_table[i].symbol = y}

\* C32 (as claimed): each source transaction has contributed at most one
\* timestamp to its client's tracker, at most one to its symbol's tracker and
\* at most one sample to the anomaly window, so a tracker never holds more
\* timestamps than its key has stored transactions and the window never more
\* samples than there are stored transactions.
C32_CountedOnce ==
    /\ \A c \in DOMAIN client_transactions :
          Len(client_transactions[c]) <= Cardinality(RowsOfClient(c))
    /\ \A y \in DOMAIN symbol_transactions :
          Len(symbol_transactions[y]) <= Cardinality(RowsOfSymbol(y))
    /\ Len(transaction_values) <= Len(transactions_table)

\* ------------------------------------------------------------- failed fetch
\* C33: a failure while fetching the transaction batch changes no engine
\* state: the cursor, both rate trackers, the anomaly window,
\* transactions_processed and alerts_generated are after the failed fetch
\* what they were before it, and no alert was written.
C33_FailedFetchChangesNothing ==
    [][(cyc'.fetchFailed /\ ~cyc.fetchFailed)
          => /\ last_transaction_id' = last_transaction_id
             /\ client_transactions' = client_transactions
             /\ symbol_transactions' = symbol_transactions
             /\ transaction_values' = transaction_values
             /\ transactions_processed' = transactions_processed
             /\ alerts_generated' = alerts_generated
             /\ alerts' = alerts]_vars

\* the fetch of the second cycle failed after the first cycle had processed a
\* transaction
C33_Witness ==
    /\ cyc.fetchFailed
    /\ iteration = 2
    /\ last_transaction_id > 0
    /\ transactions_processed > 0
    /\ transaction_values # <<>>
    /\ "CLIENT_001" \in DOMAIN client_transactions

\* ------------------------------------------------------------ alert counter
\* C34: the counter alerts_generated equals the number of alert records the
\* engine has written to the alert sink, which equals the number of
\* notifications it has dispatched, before and after every step, and it never
\* decreases.
C34_CounterIsAlertsWritten ==
    [][/\ alerts_generated = Len(alerts)
       /\ alerts_generated = Len(notifications)
       /\ alerts_generated' = Len(alerts')
       /\ alerts_generated' = Len(notifications')
       /\ alerts_generated' >= alerts_generated]_vars

\* alerts were written and counted although a sink write and no delivery
\* failed along the way
C34_Witness ==
    /\ alerts_generated >= 2
    /\ faults = 1
    /\ slack_enabled
    /\ \A i \in DOMAIN deliveries :
          deliveries[i].slack = "sent" /\ deliveries[i].email = "sent"
    /\ ~cyc.fetchFailed /\ ~cyc.selectFailed
    /\ Len(processed) = Len(ValuesOfBurst)
    /\ Len(alerts) < 2 * (Len(ValuesOfBurst) - 1 - TRANSACTION_VELOCITY_THRESHOLD) + 1

\* ------------------------------------------------------------ alert values
\* C35 (as claimed): every alert the engine emits, of any of the four alert
\* types, has a current_value strictly greater than its threshold_value.
C35_CurrentAboveThreshold ==
    \A i \in DOMAIN alerts : alerts[i].current_value > alerts[i].threshold_value

\* ------------------------------------------------------------ alert manager
\* C36: after any sequence of alert creations, acknowledgements and
\* delete_old_alerts calls, every alert that was removed was acknowledged and
\* older than the given number of days when it was removed, no unacknowledged
\* alert is missing from the table, and the last delete_old_alerts call
\* returned the number of alerts it removed.
C36_OnlyOldAcknowledgedRemoved ==
    /\ \A r \in removed :
          /\ r.alert.acknowledged
          /\ r.alert.timestamp < r.at - r.days * DaySeconds
    /\ \A id \in 1..(Len(alerts) + Cardinality(removed)) :
          \/ \E i \in DOMAIN alerts : alerts[i].alert_id = id
          \/ \E r \in removed : r.alert.alert_id = id
    /\ result.op = "delete_old_alerts"
          => result.value = Cardinality({r \in removed : r.call = result.n})

\* a call removed the older, acknowledged alert and returned 1; the
\* unacknowledged alert of the same age is still in the table
C36_Witness ==
    /\ result.op = "delete_old_alerts"
    /\ result.value = 1
    /\ Cardinality(removed) = 1
    /\ \E i \in DOMAIN alerts :
          /\ ~alerts[i].acknowledged
          /\ \A r \in removed : alerts[i].timestamp = r.alert.timestamp

\* C37 (as claimed): acknowledge_alert returned True if and only if an alert
\* with the given id exists and is acknowledged after the call, and
\* acknowledge_multiple returned the number of alerts that are acknowledged
\* among the given ids.
C37_TrueIffAcknowledged ==
    /\ result.op = "acknowledge_alert"
          => (result.value <=> result.marked # {})
    /\ result.op = "acknowledge_multiple"
          => result.value = Cardinality(result.marked)

\* ------------------------------------------------------- get_cursor blocks
\* what a block left behind is what its exit says: its statements are all
\* committed after a commit, none of them is after a rollback, which is
\* followed by the exception; the block's cursor is closed
Settled(o, stmts) ==
    /\ o.how = "committed" => stmts \subseteq db.committed /\ ~o.reraised
    /\ o.how # "committed" => stmts \cap db.committed = {} /\ o.reraised
    /\ o.cursor \in db.closed

\* C38 (as claimed): the statements executed inside a get_cursor block, those
\* of the blocks nested in it included, are committed if the block ends
\* normally and rolled back, with the exception re-raised, if the block
\* raises; the cursor is closed in both cases.
C38_BlockCommitsOrRollsBack ==
    \A o \in db.outcomes : Settled(o, o.own \cup o.nested)

\* C38 (amended): the statements executed with a block's own cursor are
\* committed if the block ends normally and its commit succeeds, and rolled
\* back, with the exception re-raised, if the block or its commit raises;
\* the cursor is closed in every case, and no open block's cursor is closed.
C38_OwnStatementsCommitOrRollBack ==
    /\ \A o \in db.outcomes : Settled(o, o.own)
    /\ \A i \in DOMAIN db.blocks : db.blocks[i].cursor \notin db.closed

\* inside a reading block one writing block was committed and a second one
\* rolled back, then the reading block raised
C38_Witness ==
    /\ db.blocks = <<>>
    /\ \E o \in db.outcomes : o.how = "committed" /\ o.own # {}
    /\ \E o \in db.outcomes : o.how = "raised" /\ o.own # {}
    /\ \E o \in db.outcomes :
          o.how = "raised" /\ Cardinality(o.nested) = 2

====
